---- MODULE Spec2Model ----
(***************************************************************************)
(* Model of jiacrontab_admin/user.go: the HTTP handlers of the admin      *)
(* server (AuditJob, IninAdminUser, Signup, GroupUser, GetUserList) as a   *)
(* state machine.  One request is served at a time; every handler is cut   *)
(* into the steps of its source (validation, guards, remote call, writes,  *)
(* event publication, response), each step one action.                     *)
(***************************************************************************)
EXTENDS Integers, Sequences, FiniteSets, TLC

\* ---------------------------------------------------------------- bounds
\* Number of requests served in one behaviour.
MaxRequests == 2

\* ------------------------------------------------------------- constants
\* models.SuperGroup.ID (the handlers also spell it as the literal 1).
SuperGroupID == 1

GroupIDs == {1, 2, 3}
UserIDs == {1}
Usernames == {"alice"}
TargetUserIDs == {1, 2}

\* The nodes table: address -> owning group.  "nx" is an address with no row.
Addrs == {"n2", "nx"}
NodeGroup == [a \in {"n2", "n3", "n4"} |-> IF a = "n3" THEN 3 ELSE 2]

JobTypes == {"crontab", "daemon"}
ReqJobTypes == JobTypes \cup {"other"}
JobIDSeqs == {<<1, 2>>, <<2>>}

\* Job records held by the remote node: ID -> display name.
JobName == [i \in {1, 2} |-> IF i = 1 THEN "backup" ELSE "cleanup"]

event_AuditCrontabJob == "audit_crontab_job"
event_AuditDaemonJob == "audit_daemon_job"
event_SignUpUser == "signup_user"
event_GroupUser == "group_user"

\* ------------------------------------------------------------ data types
\* CustomerClaims (without the jwt.StandardClaims envelope).
CustomerClaims == [UserID : UserIDs, GroupID : GroupIDs, Root : BOOLEAN]

\* The zero value of CustomerClaims: ctx.claims before a token was parsed.
NoClaims == [UserID |-> 0, GroupID |-> 0, Root |-> FALSE]

\* A presented token: a signed claims payload, or one that fails Verify.
Tokens ==
    {[kind |-> "ok", claims |-> c] : c \in CustomerClaims}
        \cup {[kind |-> k, claims |-> NoClaims] : k \in {"expired", "malformed"}}

AuditJobReqParams == [JobIDs : JobIDSeqs, Addr : Addrs, JobType : ReqJobTypes]

\* UserReqParams (Passwd and Mail are carried through unread).
UserReqParams == [Username : Usernames, GroupID : {SuperGroupID, 2}, Root : BOOLEAN]

SetGroupReqParams ==
    [TargetGroupID : {2}, TargetGroupName : {"", "ops"}, UserID : TargetUserIDs, Root : BOOLEAN]

\* GetUsersParams; QueryGroupID 0 is the field left out of the body.
GetUsersParams ==
    [IsAll : BOOLEAN, QueryGroupID : {0} \cup GroupIDs, Page : {1, 2}, Pagesize : {1, 2}]

\* A users row; the row's ID is its position in the table.
User(name, groupID, root) == [Username |-> name, GroupID |-> groupID, Root |-> root]

\* Users tables the server can be started on: a fresh install, and one with
\* the administrator and a user of group 3.
InitialUsers ==
    {<<>>, <<User("admin", SuperGroupID, TRUE), User("bob", 3, FALSE)>>}

\* The groups table: ID -> Name.
InitialGroups == [g \in GroupIDs |-> IF g = SuperGroupID THEN "super" ELSE "team"]

NoReq == [none |-> TRUE]

VARIABLES
    pc,       \* position of the request being served ("idle", "done" or a step)
    handler,  \* the handler the request was routed to
    start,    \* the request body and the tables as they were when it arrived
    req,      \* reqBody of the request being served
    token,    \* the token presented with the request
    claims,   \* ctx.claims
    local,    \* the handler's local variables
    resp,     \* responses written to the client by this request, in order
    trace,    \* collaborator calls made by this request, in order
    users,    \* users table
    groups,   \* groups table
    events,   \* audit-trail store (events table)
    nReq      \* requests accepted so far

vars == <<pc, handler, start, req, token, claims, local, resp, trace, users, groups, events, nReq>>

db == <<users, groups, events>>

\* ------------------------------------------------------------ pure parts
RECURSIVE Join(_, _)
\* strings.Join(elems, sep)
Join(elems, sep) ==
    IF Len(elems) = 0 THEN ""
    ELSE IF Len(elems) = 1 THEN elems[1]
    ELSE elems[1] \o sep \o Join(Tail(elems), sep)

\* Mutant: the names are collected back to front.
TargetNames_Reversed(reply) == [i \in 1..Len(reply) |-> reply[Len(reply) + 1 - i].Name]

\* for _, v := range reply { targetNames = append(targetNames, v.Name) }
TargetNames(reply) == [i \in 1..Len(reply) |-> reply[i].Name]

\* ctx.isSuper()
isSuper(c) == c.GroupID = SuperGroupID

\* AuthorizationGuard.OwnsGroup
OwnsGroup(c, targetGroupID) == c.GroupID = targetGroupID \/ isSuper(c)

\* ctx.verifyNodePermission(addr): the node's owning group is looked up and
\* the group-ownership decision applied; an unresolvable address is refused.
verifyNodePermission(c, addr) ==
    addr \in DOMAIN NodeGroup /\ OwnsGroup(c, NodeGroup[addr])

\* ctx.parseClaimsFromToken(): "nil" or the token error.
parseClaimsFromToken(t) == IF t.kind = "ok" THEN "nil" ELSE t.kind

\* AuditJobReqParams.verify(ctx): body rules, token, job type variant.
AuditJobVerify(body, ok, t) ==
    IF ~ok THEN "param"
    ELSE IF parseClaimsFromToken(t) # "nil" THEN parseClaimsFromToken(t)
    ELSE IF body.JobType \notin JobTypes THEN "param"
    ELSE "nil"

\* Replies the remote node can give to an audit of jobIDs: the job records it
\* matched, each at most once, in the node's own order.
JobRecord(i) == [ID |-> i, Name |-> JobName[i]]

Range(s) == {s[i] : i \in 1..Len(s)}

AuditReplies(jobIDs) ==
    {<<>>}
        \cup {<<JobRecord(i)>> : i \in Range(jobIDs)}
        \cup UNION {{<<JobRecord(i), JobRecord(j)>> : j \in Range(jobIDs) \ {i}} :
                        i \in Range(jobIDs)}

RpcErrors == {"transport", "timeout", "remote"}

\* Outcomes of rpcCall: an error, or a reply.
RpcOutcomes(jobIDs) ==
    {[err |-> e, reply |-> <<>>] : e \in RpcErrors}
        \cup {[err |-> "nil", reply |-> r] : r \in AuditReplies(jobIDs)}

\* The row ctx.pubEvent builds from its arguments and ctx.claims.
Event(subject, kind, addr, payload, c) ==
    [Subject |-> subject, Kind |-> kind, Addr |-> addr, Payload |-> payload,
     UserID |-> c.UserID, GroupID |-> c.GroupID]

\* The events table keeps, of each appended event, the columns the queries of
\* this file select on (user_id); the row's id is its position.
EventRow(e) == [UserID |-> e.UserID]

\* ---------------------------------------------------------------- state
Init ==
    /\ pc = "idle"
    /\ handler = "none"
    /\ req = NoReq
    /\ token = [kind |-> "malformed", claims |-> NoClaims]
    /\ claims = NoClaims
    /\ local = NoReq
    /\ resp = <<>>
    /\ trace = <<>>
    /\ users \in InitialUsers
    /\ groups = InitialGroups
    /\ events = <<>>
    /\ nReq = 0
    /\ start = [req |-> NoReq, users |-> users, groups |-> groups, events |-> events]

\* A request arrives and is routed to a handler: wrapCtx(c) and the handler's
\* zero-valued locals.
Accept(h, label, body, t) ==
    /\ pc \in {"idle", "done"}
    /\ nReq < MaxRequests
    /\ pc' = label
    /\ handler' = h
    /\ start' = [req |-> body, users |-> users, groups |-> groups, events |-> events]
    /\ req' = body
    /\ token' = t
    /\ claims' = NoClaims
    /\ local' = NoReq
    /\ resp' = <<>>
    /\ trace' = <<>>
    /\ nReq' = nReq + 1
    /\ UNCHANGED db

\* ctx.Valid(&reqBody): the raw body is read into reqBody and checked against
\* the rules of its type; ok is whether it passed.
Valid(ok) == trace' = Append(trace, [op |-> "Valid", ok |-> ok])

\* ctx.respXxx(...) followed by return.
Respond(code) ==
    /\ resp' = Append(resp, code)
    /\ pc' = "done"

\* ------------------------------------------------------------- AuditJob
AuditJobStart ==
    \E body \in AuditJobReqParams, t \in Tokens :
        Accept("AuditJob", "AuditJob_verify", body, t)

AuditJob_verify ==
    /\ pc = "AuditJob_verify"
    /\ \E ok \in BOOLEAN :
        LET err == AuditJobVerify(req, ok, token) IN
        /\ Valid(ok)
        /\ IF err # "nil"
           THEN /\ Respond("basicError")
                /\ UNCHANGED claims
           ELSE /\ claims' = token.claims
                /\ pc' = "AuditJob_nodePermission"
                /\ UNCHANGED resp
    /\ UNCHANGED <<handler, start, req, token, local, db, nReq>>

\* Mutant: the privilege check is skipped once the node check passed.
AuditJob_nodePermission_SkipsPrivilege ==
    /\ pc = "AuditJob_nodePermission"
    /\ LET ok == verifyNodePermission(claims, req.Addr) IN
        /\ trace' = Append(trace, [op |-> "verifyNodePermission", ok |-> ok])
        /\ IF ~ok
           THEN Respond("notAllowed")
           ELSE /\ pc' = "AuditJob_rpcCall"
                /\ UNCHANGED resp
    /\ UNCHANGED <<handler, start, req, token, claims, local, db, nReq>>

AuditJob_nodePermission ==
    /\ pc = "AuditJob_nodePermission"
    /\ LET ok == verifyNodePermission(claims, req.Addr) IN
        /\ trace' = Append(trace, [op |-> "verifyNodePermission", ok |-> ok])
        /\ IF ~ok
           THEN Respond("notAllowed")
           ELSE /\ pc' = "AuditJob_privilege"
                /\ UNCHANGED resp
    /\ UNCHANGED <<handler, start, req, token, claims, local, db, nReq>>

\* Mutant: the root flag is tested without its negation.
AuditJob_privilege_RootNotNegated ==
    /\ pc = "AuditJob_privilege"
    /\ LET denied == claims.GroupID # SuperGroupID /\ claims.Root IN
        /\ trace' = Append(trace, [op |-> "privilege", ok |-> ~denied])
        /\ IF denied
           THEN Respond("notAllowed")
           ELSE /\ pc' = "AuditJob_rpcCall"
                /\ UNCHANGED resp
    /\ UNCHANGED <<handler, start, req, token, claims, local, db, nReq>>

AuditJob_privilege ==
    /\ pc = "AuditJob_privilege"
    /\ LET denied == claims.GroupID # SuperGroupID /\ ~claims.Root IN
        /\ trace' = Append(trace, [op |-> "privilege", ok |-> ~denied])
        /\ IF denied
           THEN Respond("notAllowed")
           ELSE /\ pc' = "AuditJob_rpcCall"
                /\ UNCHANGED resp
    /\ UNCHANGED <<handler, start, req, token, claims, local, db, nReq>>

\* Mutant: the two remote method names are exchanged.
AuditJob_rpcCall_SwapsMethods ==
    /\ pc = "AuditJob_rpcCall"
    /\ \E out \in RpcOutcomes(req.JobIDs) :
        LET method == IF req.JobType = "crontab" THEN "DaemonJob.Audit"
                      ELSE "CrontabJob.Audit"
        IN
        /\ trace' = Append(trace, [op |-> "rpcCall", addr |-> req.Addr,
                                   method |-> method,
                                   args |-> [JobIDs |-> req.JobIDs],
                                   err |-> out.err, reply |-> out.reply])
        /\ IF out.err # "nil"
           THEN /\ Respond("rpcError")
                /\ UNCHANGED local
           ELSE /\ local' = [targetNames |-> TargetNames(out.reply)]
                /\ pc' = "AuditJob_pubEvent"
                /\ UNCHANGED resp
    /\ UNCHANGED <<handler, start, req, token, claims, db, nReq>>

\* Mutant: a call that timed out is issued once more.
AuditJob_rpcCall_RetriesTimeout ==
    /\ pc = "AuditJob_rpcCall"
    /\ \E out \in RpcOutcomes(req.JobIDs) :
        LET method == IF req.JobType = "crontab" THEN "CrontabJob.Audit"
                      ELSE "DaemonJob.Audit"
        IN
        /\ trace' = Append(trace, [op |-> "rpcCall", addr |-> req.Addr,
                                   method |-> method,
                                   args |-> [JobIDs |-> req.JobIDs],
                                   err |-> out.err, reply |-> out.reply])
        /\ IF out.err = "timeout" /\ trace = SelectSeq(trace, LAMBDA e : e.op # "rpcCall")
           THEN UNCHANGED <<pc, resp, local>>
           ELSE IF out.err # "nil"
           THEN /\ Respond("rpcError")
                /\ UNCHANGED local
           ELSE /\ local' = [targetNames |-> TargetNames(out.reply)]
                /\ pc' = "AuditJob_pubEvent"
                /\ UNCHANGED resp
    /\ UNCHANGED <<handler, start, req, token, claims, db, nReq>>

\* Mutant: the error of rpcCall is not checked.
AuditJob_rpcCall_IgnoresError ==
    /\ pc = "AuditJob_rpcCall"
    /\ \E out \in RpcOutcomes(req.JobIDs) :
        LET method == IF req.JobType = "crontab" THEN "CrontabJob.Audit"
                      ELSE "DaemonJob.Audit"
        IN
        /\ trace' = Append(trace, [op |-> "rpcCall", addr |-> req.Addr,
                                   method |-> method,
                                   args |-> [JobIDs |-> req.JobIDs],
                                   err |-> out.err, reply |-> out.reply])
        /\ local' = [targetNames |-> TargetNames(out.reply)]
        /\ pc' = "AuditJob_pubEvent"
        /\ UNCHANGED resp
    /\ UNCHANGED <<handler, start, req, token, claims, db, nReq>>

AuditJob_rpcCall ==
    /\ pc = "AuditJob_rpcCall"
    /\ \E out \in RpcOutcomes(req.JobIDs) :
        LET method == IF req.JobType = "crontab" THEN "CrontabJob.Audit"
                      ELSE "DaemonJob.Audit"
        IN
        /\ trace' = Append(trace, [op |-> "rpcCall", addr |-> req.Addr,
                                   method |-> method,
                                   args |-> [JobIDs |-> req.JobIDs],
                                   err |-> out.err, reply |-> out.reply])
        /\ IF out.err # "nil"
           THEN /\ Respond("rpcError")
                /\ UNCHANGED local
           ELSE /\ local' = [targetNames |-> TargetNames(out.reply)]
                /\ pc' = "AuditJob_pubEvent"
                /\ UNCHANGED resp
    /\ UNCHANGED <<handler, start, req, token, claims, db, nReq>>

\* ctx.pubEvent: the event row is appended to the store; a failed append is
\* logged and not returned.
pubEvent(subject, kind, addr, payload) ==
    \E stored \in BOOLEAN :
        LET e == Event(subject, kind, addr, payload, claims) IN
        /\ trace' = Append(trace, [op |-> "pubEvent", event |-> e, stored |-> stored])
        /\ events' = IF stored THEN Append(events, EventRow(e)) ELSE events

AuditJob_pubEvent ==
    /\ pc = "AuditJob_pubEvent"
    /\ pubEvent(Join(local.targetNames, ","),
                IF req.JobType = "crontab" THEN event_AuditCrontabJob
                ELSE event_AuditDaemonJob,
                req.Addr, req)
    /\ pc' = "AuditJob_respSucc"
    /\ UNCHANGED <<handler, start, req, token, claims, local, resp, users, groups, nReq>>

AuditJob_respSucc ==
    /\ pc = "AuditJob_respSucc"
    /\ Respond("succ")
    /\ UNCHANGED <<handler, start, req, token, claims, local, trace, db, nReq>>

AuditJob ==
    \/ AuditJob_verify
    \/ AuditJob_nodePermission
    \/ AuditJob_privilege
    \/ AuditJob_rpcCall
    \/ AuditJob_pubEvent
    \/ AuditJob_respSucc

\* -------------------------------------------------------- storage calls
DBOutcomes == {"nil", "dberror"}

\* user.Create(): inserts the row, or fails and inserts nothing.
Create(row, err) ==
    /\ trace' = Append(trace, [op |-> "Create", row |-> row, err |-> err])
    /\ users' = IF err = "nil" THEN Append(users, row) ELSE users

\* user.SetGroup(): writes group_id and root of the row with the given ID.
SetGroupResult(id, err) ==
    IF err # "nil" THEN err
    ELSE IF id \notin DOMAIN users THEN "notfound"
    ELSE "nil"

SetGroup(id, groupID, root, err) ==
    LET res == SetGroupResult(id, err) IN
    /\ trace' = Append(trace, [op |-> "SetGroup", id |-> id, groupID |-> groupID,
                               root |-> root, err |-> res])
    /\ users' = IF res = "nil"
                THEN [users EXCEPT ![id].GroupID = groupID, ![id].Root = root]
                ELSE users

\* models.DB().Save(&group) of a group with no ID: a new row, a new ID.
NewGroupID == Cardinality(DOMAIN groups) + 1

\* ctx.isSuper() of a request: the token is parsed, a token that does not
\* verify leaves the zero claims.
ParsedClaims(t) == IF parseClaimsFromToken(t) = "nil" THEN t.claims ELSE NoClaims

\* -------------------------------------------------------- IninAdminUser
IninAdminUserStart ==
    \E body \in UserReqParams, t \in Tokens :
        Accept("IninAdminUser", "IninAdminUser_Valid", body, t)

IninAdminUser_Valid ==
    /\ pc = "IninAdminUser_Valid"
    /\ \E ok \in BOOLEAN :
        /\ Valid(ok)
        /\ IF ~ok
           THEN Respond("paramError")
           ELSE /\ pc' = "IninAdminUser_Take"
                /\ UNCHANGED resp
    /\ UNCHANGED <<handler, start, req, token, claims, local, db, nReq>>

\* Take(&user, "group_id=?", 1): a row of group 1, no row, or a storage error.
TakeOutcomes ==
    {"dberror"} \cup
        (IF \E i \in DOMAIN users : users[i].GroupID = 1 THEN {"found"} ELSE {"notfound"})

IninAdminUser_Take ==
    /\ pc = "IninAdminUser_Take"
    /\ \E out \in TakeOutcomes :
        /\ trace' = Append(trace, [op |-> "Take", out |-> out])
        /\ IF out = "found"
           THEN Respond("notAllowed")
           ELSE /\ pc' = "IninAdminUser_Create"
                /\ UNCHANGED resp
    /\ UNCHANGED <<handler, start, req, token, claims, local, db, nReq>>

IninAdminUser_Create ==
    /\ pc = "IninAdminUser_Create"
    /\ \E err \in DBOutcomes :
        /\ Create(User(req.Username, SuperGroupID, TRUE), err)
        /\ IF err # "nil"
           THEN Respond("error")
           ELSE /\ pc' = "IninAdminUser_respSucc"
                /\ UNCHANGED resp
    /\ UNCHANGED <<handler, start, req, token, claims, local, groups, events, nReq>>

IninAdminUser_respSucc ==
    /\ pc = "IninAdminUser_respSucc"
    /\ Respond("succ")
    /\ UNCHANGED <<handler, start, req, token, claims, local, trace, db, nReq>>

IninAdminUser ==
    \/ IninAdminUser_Valid
    \/ IninAdminUser_Take
    \/ IninAdminUser_Create
    \/ IninAdminUser_respSucc

\* --------------------------------------------------------------- Signup
SignupStart ==
    \E body \in UserReqParams, t \in Tokens :
        Accept("Signup", "Signup_Valid", body, t)

Signup_Valid ==
    /\ pc = "Signup_Valid"
    /\ \E ok \in BOOLEAN :
        /\ Valid(ok)
        /\ IF ~ok
           THEN Respond("paramError")
           ELSE /\ pc' = "Signup_isSuper"
                /\ UNCHANGED resp
    /\ UNCHANGED <<handler, start, req, token, claims, local, db, nReq>>

\* Mutant: the guard accepts a root user of any group.
Signup_isSuper_AcceptsRoot ==
    /\ pc = "Signup_isSuper"
    /\ claims' = ParsedClaims(token)
    /\ trace' = Append(trace, [op |-> "isSuper", ok |-> isSuper(claims')])
    /\ IF ~(isSuper(claims') \/ claims'.Root)
       THEN Respond("notAllowed")
       ELSE /\ pc' = "Signup_Create"
            /\ UNCHANGED resp
    /\ UNCHANGED <<handler, start, req, token, local, db, nReq>>

Signup_isSuper ==
    /\ pc = "Signup_isSuper"
    /\ claims' = ParsedClaims(token)
    /\ trace' = Append(trace, [op |-> "isSuper", ok |-> isSuper(claims')])
    /\ IF ~isSuper(claims')
       THEN Respond("notAllowed")
       ELSE /\ pc' = "Signup_Create"
            /\ UNCHANGED resp
    /\ UNCHANGED <<handler, start, req, token, local, db, nReq>>

\* Mutant: the handler does not return after a failed Create.
Signup_Create_NoReturn ==
    /\ pc = "Signup_Create"
    /\ \E err \in DBOutcomes :
        /\ Create(User(req.Username, req.GroupID, req.Root), err)
        /\ resp' = IF err # "nil" THEN Append(resp, "dbError") ELSE resp
        /\ local' = [user |-> User(req.Username, req.GroupID, req.Root)]
        /\ pc' = "Signup_pubEvent"
    /\ UNCHANGED <<handler, start, req, token, claims, groups, events, nReq>>

Signup_Create ==
    /\ pc = "Signup_Create"
    /\ \E err \in DBOutcomes :
        /\ Create(User(req.Username, req.GroupID, req.Root), err)
        /\ IF err # "nil"
           THEN /\ Respond("dbError")
                /\ UNCHANGED local
           ELSE /\ local' = [user |-> User(req.Username, req.GroupID, req.Root)]
                /\ pc' = "Signup_pubEvent"
                /\ UNCHANGED resp
    /\ UNCHANGED <<handler, start, req, token, claims, groups, events, nReq>>

\* Mutant: a failed append of the event is answered as a storage error.
Signup_pubEvent_FailsOnAppendError ==
    /\ pc = "Signup_pubEvent"
    /\ pubEvent(local.user.Username, event_SignUpUser, "", req)
    /\ IF trace'[Len(trace')].stored
       THEN /\ pc' = "Signup_respSucc"
            /\ UNCHANGED resp
       ELSE Respond("dbError")
    /\ UNCHANGED <<handler, start, req, token, claims, local, users, groups, nReq>>

Signup_pubEvent ==
    /\ pc = "Signup_pubEvent"
    /\ pubEvent(local.user.Username, event_SignUpUser, "", req)
    /\ pc' = "Signup_respSucc"
    /\ UNCHANGED <<handler, start, req, token, claims, local, resp, users, groups, nReq>>

Signup_respSucc ==
    /\ pc = "Signup_respSucc"
    /\ Respond("succ")
    /\ UNCHANGED <<handler, start, req, token, claims, local, trace, db, nReq>>

Signup ==
    \/ Signup_Valid
    \/ Signup_isSuper
    \/ Signup_Create
    \/ Signup_pubEvent
    \/ Signup_respSucc

\* ------------------------------------------------------------ GroupUser
GroupUserStart ==
    \E body \in SetGroupReqParams, t \in Tokens :
        Accept("GroupUser", "GroupUser_Valid", body, t)

GroupUser_Valid ==
    /\ pc = "GroupUser_Valid"
    /\ \E ok \in BOOLEAN :
        /\ Valid(ok)
        /\ IF ~ok
           THEN Respond("basicError")
           ELSE /\ pc' = "GroupUser_isSuper"
                /\ UNCHANGED resp
    /\ UNCHANGED <<handler, start, req, token, claims, local, db, nReq>>

GroupUser_isSuper ==
    /\ pc = "GroupUser_isSuper"
    /\ claims' = ParsedClaims(token)
    /\ trace' = Append(trace, [op |-> "isSuper", ok |-> isSuper(claims')])
    /\ IF ~isSuper(claims')
       THEN Respond("notAllowed")
       ELSE /\ pc' = "GroupUser_Save"
            /\ UNCHANGED resp
    /\ UNCHANGED <<handler, start, req, token, local, db, nReq>>

GroupUser_Save ==
    /\ pc = "GroupUser_Save"
    /\ IF req.TargetGroupName # ""
       THEN \E err \in DBOutcomes :
            /\ trace' = Append(trace, [op |-> "Save", name |-> req.TargetGroupName,
                                       err |-> err])
            /\ IF err # "nil"
               THEN /\ Respond("dbError")
                    /\ UNCHANGED <<req, groups>>
               ELSE /\ groups' = (NewGroupID :> req.TargetGroupName) @@ groups
                    /\ req' = [req EXCEPT !.TargetGroupID = NewGroupID]
                    /\ pc' = "GroupUser_SetGroup"
                    /\ UNCHANGED resp
       ELSE /\ pc' = "GroupUser_SetGroup"
            /\ UNCHANGED <<req, groups, resp, trace>>
    /\ UNCHANGED <<handler, start, token, claims, local, users, events, nReq>>

\* The handler sets ID, GroupID and Root of its local user and never its
\* Username: after SetGroup it is the stored name if SetGroup loaded the row,
\* and empty if not.
GroupUser_SetGroup ==
    /\ pc = "GroupUser_SetGroup"
    /\ \E err \in DBOutcomes :
        /\ SetGroup(req.UserID, req.TargetGroupID, req.Root, err)
        /\ IF SetGroupResult(req.UserID, err) # "nil"
           THEN /\ Respond("dbError")
                /\ UNCHANGED local
           ELSE /\ \E name \in {"", users[req.UserID].Username} :
                    local' = [user |-> User(name, req.TargetGroupID, req.Root)]
                /\ pc' = "GroupUser_pubEvent"
                /\ UNCHANGED resp
    /\ UNCHANGED <<handler, start, req, token, claims, groups, events, nReq>>

GroupUser_pubEvent ==
    /\ pc = "GroupUser_pubEvent"
    /\ pubEvent(local.user.Username, event_GroupUser, "", req)
    /\ pc' = "GroupUser_respSucc"
    /\ UNCHANGED <<handler, start, req, token, claims, local, resp, users, groups, nReq>>

GroupUser_respSucc ==
    /\ pc = "GroupUser_respSucc"
    /\ Respond("succ")
    /\ UNCHANGED <<handler, start, req, token, claims, local, trace, db, nReq>>

GroupUser ==
    \/ GroupUser_Valid
    \/ GroupUser_isSuper
    \/ GroupUser_Save
    \/ GroupUser_SetGroup
    \/ GroupUser_pubEvent
    \/ GroupUser_respSucc

\* ---------------------------------------------------------- GetUserList
\* The users table as rows with their primary key, in primary-key order.
UserRows == [i \in DOMAIN users |-> [ID |-> i, Username |-> users[i].Username,
                                     GroupID |-> users[i].GroupID, Root |-> users[i].Root]]

\* Where("group_id=?", g)
WhereGroup(rows, g) == SelectSeq(rows, LAMBDA r : r.GroupID = g)

\* Offset(k)
Offset(rows, k) == SubSeq(rows, k + 1, Len(rows))

\* Limit(n)
Limit(rows, n) == SubSeq(rows, 1, IF n < Len(rows) THEN n ELSE Len(rows))

\* The rows the Find of a request returns: Limit(Pagesize) of all users
\* when IsAll, and Where(group).Offset(Page - 1).Limit(Pagesize) otherwise.
ListPage(isAll, groupID, page, pagesize) ==
    IF isAll THEN Limit(UserRows, pagesize)
    ELSE Limit(Offset(WhereGroup(UserRows, groupID), page - 1), pagesize)

GetUserListStart ==
    \E body \in GetUsersParams, t \in Tokens :
        Accept("GetUserList", "GetUserList_Valid", body, t)

\* A failed validation writes the parameter error and falls through.
GetUserList_Valid ==
    /\ pc = "GetUserList_Valid"
    /\ \E ok \in BOOLEAN :
        /\ Valid(ok)
        /\ resp' = IF ~ok THEN Append(resp, "paramError") ELSE resp
    /\ pc' = "GetUserList_parseClaims"
    /\ UNCHANGED <<handler, start, req, token, claims, local, db, nReq>>

GetUserList_parseClaims ==
    /\ pc = "GetUserList_parseClaims"
    /\ IF parseClaimsFromToken(token) # "nil"
       THEN /\ Respond("jwtError")
            /\ UNCHANGED claims
       ELSE /\ claims' = token.claims
            /\ pc' = "GetUserList_guardAll"
            /\ UNCHANGED resp
    /\ UNCHANGED <<handler, start, req, token, local, trace, db, nReq>>

\* Mutant: the guard lets a root user of any group list all users.
GetUserList_guardAll_AcceptsRoot ==
    /\ pc = "GetUserList_guardAll"
    /\ IF req.IsAll /\ claims.GroupID # SuperGroupID /\ ~claims.Root
       THEN Respond("notAllowed")
       ELSE /\ pc' = "GetUserList_guardGroup"
            /\ UNCHANGED resp
    /\ UNCHANGED <<handler, start, req, token, claims, local, trace, db, nReq>>

GetUserList_guardAll ==
    /\ pc = "GetUserList_guardAll"
    /\ IF req.IsAll /\ claims.GroupID # SuperGroupID
       THEN Respond("notAllowed")
       ELSE /\ pc' = "GetUserList_guardGroup"
            /\ UNCHANGED resp
    /\ UNCHANGED <<handler, start, req, token, claims, local, trace, db, nReq>>

\* Mutant: the guard has no exemption for the super group.
GetUserList_guardGroup_NoSuperExemption ==
    /\ pc = "GetUserList_guardGroup"
    /\ IF ~req.IsAll /\ req.QueryGroupID # claims.GroupID
       THEN Respond("notAllowed")
       ELSE /\ pc' = "GetUserList_Count"
            /\ UNCHANGED resp
    /\ UNCHANGED <<handler, start, req, token, claims, local, trace, db, nReq>>

GetUserList_guardGroup ==
    /\ pc = "GetUserList_guardGroup"
    /\ IF ~req.IsAll /\ req.QueryGroupID # claims.GroupID /\ claims.GroupID # SuperGroupID
       THEN Respond("notAllowed")
       ELSE /\ pc' = "GetUserList_Count"
            /\ UNCHANGED resp
    /\ UNCHANGED <<handler, start, req, token, claims, local, trace, db, nReq>>

GetUserList_Count ==
    /\ pc = "GetUserList_Count"
    /\ req' = IF req.QueryGroupID = 0
              THEN [req EXCEPT !.QueryGroupID = claims.GroupID] ELSE req
    /\ \E err \in DBOutcomes :
        /\ trace' = Append(trace, [op |-> "Count", all |-> req.IsAll,
                                   groupID |-> req'.QueryGroupID, err |-> err])
        /\ IF err # "nil"
           THEN /\ Respond("basicError")
                /\ UNCHANGED local
           ELSE /\ local' = [total |-> IF req.IsAll THEN Len(UserRows)
                                       ELSE Len(WhereGroup(UserRows, req'.QueryGroupID)),
                             userList |-> <<>>]
                /\ pc' = "GetUserList_Find"
                /\ UNCHANGED resp
    /\ UNCHANGED <<handler, start, token, claims, db, nReq>>

GetUserList_Find ==
    /\ pc = "GetUserList_Find"
    /\ \E err \in DBOutcomes :
        /\ trace' = Append(trace, [op |-> "Find", all |-> req.IsAll,
                                   groupID |-> req.QueryGroupID, err |-> err])
        /\ IF err # "nil"
           THEN /\ Respond("dbError")
                /\ UNCHANGED local
           ELSE /\ local' = [local EXCEPT !.userList =
                                ListPage(req.IsAll, req.QueryGroupID, req.Page, req.Pagesize)]
                /\ pc' = "GetUserList_respSucc"
                /\ UNCHANGED resp
    /\ UNCHANGED <<handler, start, req, token, claims, db, nReq>>

GetUserList_respSucc ==
    /\ pc = "GetUserList_respSucc"
    /\ Respond("succ")
    /\ UNCHANGED <<handler, start, req, token, claims, local, trace, db, nReq>>

GetUserList ==
    \/ GetUserList_Valid
    \/ GetUserList_parseClaims
    \/ GetUserList_guardAll
    \/ GetUserList_guardGroup
    \/ GetUserList_Count
    \/ GetUserList_Find
    \/ GetUserList_respSucc

\* ---------------------------------------------------------------- Login
\* LoginReqParams.  "mallory" has no row in any users table.
LoginReqParams ==
    [Username : {"admin", "bob", "mallory"}, Passwd : {"pw-admin", "pw-bob"}, Remember : BOOLEAN]

\* What the users table keeps beside the columns of User: the password and
\* the mail address of a user.
StoredPasswd(name) == "pw-" \o name

StoredMail(name) == name \o "@example.org"

\* cfg.Jwt.Expires: the default session length in seconds.
JwtExpires == 3600

\* 24 * 30 * time.Hour, in seconds.
RememberSeconds == 24 * 30 * 3600

\* Readings of time.Now().Unix().
Times == {100, 101}

\* A request that carries no token.
NoToken == [kind |-> "malformed", claims |-> NoClaims]

\* The first users row with the given username, or 0.
UserByName(name) ==
    IF \E i \in DOMAIN users : users[i].Username = name
    THEN CHOOSE i \in DOMAIN users :
            /\ users[i].Username = name
            /\ \A j \in DOMAIN users : users[j].Username = name => i <= j
    ELSE 0

\* user.Verify(username, passwd): the row is looked up by username and the
\* password compared; a failed lookup is a failed verification.
VerifyOutcomes(username, passwd) ==
    {"dberror"} \cup
    (IF UserByName(username) = 0 THEN {"notfound"}
     ELSE IF StoredPasswd(username) # passwd THEN {"badpasswd"}
     ELSE {"ok"})

LoginStart ==
    \E body \in LoginReqParams : Accept("Login", "Login_Valid", body, NoToken)

Login_Valid ==
    /\ pc = "Login_Valid"
    /\ \E ok \in BOOLEAN :
        /\ Valid(ok)
        /\ IF ~ok
           THEN Respond("paramError")
           ELSE /\ pc' = "Login_Verify"
                /\ UNCHANGED resp
    /\ UNCHANGED <<handler, start, req, token, claims, local, db, nReq>>

\* Mutant: an unknown username gets an answer of its own.
Login_Verify_TellsUnknownUser ==
    /\ pc = "Login_Verify"
    /\ \E res \in VerifyOutcomes(req.Username, req.Passwd) :
        /\ trace' = Append(trace, [op |-> "Verify", username |-> req.Username, res |-> res])
        /\ IF res # "ok"
           THEN /\ Respond(IF res = "notfound" THEN "authFailed: no such user"
                           ELSE "authFailed: wrong username or password")
                /\ UNCHANGED local
           ELSE /\ LET i == UserByName(req.Username)
                   IN local' = [user |-> [ID |-> i, Mail |-> StoredMail(users[i].Username),
                                          GroupID |-> users[i].GroupID, Root |-> users[i].Root]]
                /\ pc' = "Login_claims"
                /\ UNCHANGED resp
    /\ UNCHANGED <<handler, start, req, token, claims, db, nReq>>

Login_Verify ==
    /\ pc = "Login_Verify"
    /\ \E res \in VerifyOutcomes(req.Username, req.Passwd) :
        /\ trace' = Append(trace, [op |-> "Verify", username |-> req.Username, res |-> res])
        /\ IF res # "ok"
           THEN /\ Respond("authFailed: wrong username or password")
                /\ UNCHANGED local
           ELSE /\ LET i == UserByName(req.Username)
                   IN local' = [user |-> [ID |-> i, Mail |-> StoredMail(users[i].Username),
                                          GroupID |-> users[i].GroupID, Root |-> users[i].Root]]
                /\ pc' = "Login_claims"
                /\ UNCHANGED resp
    /\ UNCHANGED <<handler, start, req, token, claims, db, nReq>>

\* Mutant: the default expiry is the configured length alone, the clock is
\* not added.
LoginClaims_ExpiresWithoutNow(body, user, t1, t2) ==
    [ExpiresAt |-> IF body.Remember THEN t2 + RememberSeconds ELSE JwtExpires,
     Username  |-> body.Username,
     UserID    |-> user.ID,
     Mail      |-> user.Mail,
     GroupID   |-> user.GroupID,
     Root      |-> user.Root]

\* customerClaims as lines 45-54 leave it, given the clock readings.
LoginClaims(body, user, t1, t2) ==
    [ExpiresAt |-> IF body.Remember THEN t2 + RememberSeconds ELSE JwtExpires + t1,
     Username  |-> body.Username,
     UserID    |-> user.ID,
     Mail      |-> user.Mail,
     GroupID   |-> user.GroupID,
     Root      |-> user.Root]

\* The clock is read once, and once more when Remember is set; it does not
\* go back between the readings.
Login_claims ==
    /\ pc = "Login_claims"
    /\ \E t1 \in Times, t2 \in Times :
        /\ t1 <= t2
        /\ req.Remember \/ t2 = t1
        /\ trace' = trace \o (IF req.Remember
                              THEN <<[op |-> "Now", unix |-> t1], [op |-> "Now", unix |-> t2]>>
                              ELSE <<[op |-> "Now", unix |-> t1]>>)
        /\ local' = [user |-> local.user,
                     customerClaims |-> LoginClaims(req, local.user, t1, t2)]
    /\ pc' = "Login_Sign"
    /\ UNCHANGED <<handler, start, req, token, claims, resp, db, nReq>>

\* jwt.NewWithClaims(...).SignedString(key)
Login_Sign ==
    /\ pc = "Login_Sign"
    /\ \E err \in {"nil", "signerror"} :
        /\ trace' = Append(trace, [op |-> "SignedString", err |-> err])
        /\ IF err # "nil"
           THEN /\ Respond("authFailed: cannot issue a token")
                /\ UNCHANGED local
           ELSE /\ local' = [user |-> local.user,
                             customerClaims |-> local.customerClaims,
                             token |-> [kind |-> "ok", claims |-> local.customerClaims]]
                /\ pc' = "Login_respSucc"
                /\ UNCHANGED resp
    /\ UNCHANGED <<handler, start, req, token, claims, db, nReq>>

\* The token and groupID, root, mail, userID of the user are sent.
Login_respSucc ==
    /\ pc = "Login_respSucc"
    /\ Respond("succ")
    /\ local' = [user |-> local.user,
                 customerClaims |-> local.customerClaims,
                 token |-> local.token,
                 data |-> [token |-> local.token, groupID |-> local.user.GroupID,
                           root |-> local.user.Root, mail |-> local.user.Mail,
                           userID |-> local.user.ID]]
    /\ UNCHANGED <<handler, start, req, token, claims, trace, db, nReq>>

Login ==
    \/ Login_Valid
    \/ Login_Verify
    \/ Login_claims
    \/ Login_Sign
    \/ Login_respSucc

\* -------------------------------------------------------- read handlers
\* ReadMoreReqParams as reqBody.verify leaves it; LastID 0 asks for the
\* first page.
ReadMoreReqParams == [LastID : {0, 2, 3}, Pagesize : {1, 2}, Orderby : {"asc", "desc"}]

\* An audit-trail store holding events of user 1 and of another user.
InitialEvents == <<[UserID |-> 1], [UserID |-> 2], [UserID |-> 1], [UserID |-> 1]>>

\* The job_history table: the address each run was recorded for, in the
\* order the runs were recorded.
JobHistoryAddrs == <<"n2", "n3", "n4", "n2">>

\* The counters of the nodes table: crontab_job_audit_num,
\* daemon_job_audit_num, crontab_job_fail_num, daemon_job_running_num.
NodeCounters == [a \in DOMAIN NodeGroup |-> IF a = "n2" THEN <<1, 0, 2, 1>>
                                            ELSE IF a = "n3" THEN <<4, 3, 1, 0>>
                                            ELSE <<2, 1, 0, 1>>]

\* A users table with the administrator, a user of group 3 and two users of
\* group 2.
StoredUsers ==
    <<User("admin", SuperGroupID, TRUE), User("bob", 3, FALSE),
      User("carol", 2, TRUE), User("dave", 2, FALSE)>>

\* The server started on a store that already holds users and events.
InitRead ==
    /\ pc = "idle"
    /\ handler = "none"
    /\ req = NoReq
    /\ token = [kind |-> "malformed", claims |-> NoClaims]
    /\ claims = NoClaims
    /\ local = NoReq
    /\ resp = <<>>
    /\ trace = <<>>
    /\ users = StoredUsers
    /\ groups = InitialGroups
    /\ events = InitialEvents
    /\ nReq = 0
    /\ start = [req |-> NoReq, users |-> users, groups |-> groups, events |-> events]

\* The events table as rows with their primary key; rows are created in
\* primary-key order, so this is also created_at order.
EventRows == [i \in DOMAIN events |-> [ID |-> i, UserID |-> events[i].UserID]]

JobHistoryRows == [i \in DOMAIN JobHistoryAddrs |-> [ID |-> i, Addr |-> JobHistoryAddrs[i]]]

Reverse(rows) == [i \in 1..Len(rows) |-> rows[Len(rows) + 1 - i]]

\* Order("created_at <Orderby>")
OrderByCreatedAt(rows, orderby) == IF orderby = "desc" THEN Reverse(rows) ELSE rows

\* Where("user_id=?", userID) and Where("user_id=? and id<?", userID, lastID)
WhereUser(rows, userID, lastID) ==
    SelectSeq(rows, LAMBDA r : r.UserID = userID /\ (lastID = 0 \/ r.ID < lastID))

\* Where("addr in (?)", addrs) and Where("addr in (?) and id<?", addrs, lastID)
WhereAddrIn(rows, addrs, lastID) ==
    SelectSeq(rows, LAMBDA r : r.Addr \in addrs /\ (lastID = 0 \/ r.ID < lastID))

\* Errors of a Find: sql.ErrNoRows can only come with an empty result.
FindOutcomes(rows) == IF rows = <<>> THEN {"nil", "norows", "dberror"} ELSE {"nil", "dberror"}

GetActivityListStart ==
    \E body \in ReadMoreReqParams, t \in Tokens :
        Accept("GetActivityList", "GetActivityList_verify", body, t)

GetActivityList_verify ==
    /\ pc = "GetActivityList_verify"
    /\ \E ok \in BOOLEAN :
        /\ Valid(ok)
        /\ IF ~ok
           THEN Respond("error")
           ELSE /\ pc' = "GetActivityList_parseClaims"
                /\ UNCHANGED resp
    /\ UNCHANGED <<handler, start, req, token, claims, local, db, nReq>>

\* Mutant: the token error is written and the handler goes on to the query.
GetActivityList_parseClaims_NoReturn ==
    /\ pc = "GetActivityList_parseClaims"
    /\ IF parseClaimsFromToken(token) # "nil"
       THEN /\ resp' = Append(resp, "basicError")
            /\ pc' = "GetActivityList_Find"
            /\ UNCHANGED claims
       ELSE /\ claims' = token.claims
            /\ pc' = "GetActivityList_Find"
            /\ UNCHANGED resp
    /\ UNCHANGED <<handler, start, req, token, local, trace, db, nReq>>

GetActivityList_parseClaims ==
    /\ pc = "GetActivityList_parseClaims"
    /\ IF parseClaimsFromToken(token) # "nil"
       THEN /\ Respond("basicError")
            /\ UNCHANGED claims
       ELSE /\ claims' = token.claims
            /\ pc' = "GetActivityList_Find"
            /\ UNCHANGED resp
    /\ UNCHANGED <<handler, start, req, token, local, trace, db, nReq>>

\* Mutant: the query has no user_id condition.
GetActivityList_Find_AnyUser ==
    /\ pc = "GetActivityList_Find"
    /\ LET rows == Limit(OrderByCreatedAt(
                       SelectSeq(EventRows, LAMBDA r : req.LastID = 0 \/ r.ID < req.LastID),
                       req.Orderby), req.Pagesize)
       IN \E err \in FindOutcomes(rows) :
            /\ trace' = Append(trace, [op |-> "Find", table |-> "events", err |-> err])
            /\ IF err \notin {"nil", "norows"}
               THEN /\ Respond("dbError")
                    /\ UNCHANGED local
               ELSE /\ local' = [list |-> rows]
                    /\ pc' = "GetActivityList_respSucc"
                    /\ UNCHANGED resp
    /\ UNCHANGED <<handler, start, req, token, claims, db, nReq>>

GetActivityList_Find ==
    /\ pc = "GetActivityList_Find"
    /\ LET rows == Limit(OrderByCreatedAt(WhereUser(EventRows, claims.UserID, req.LastID),
                                          req.Orderby), req.Pagesize)
       IN \E err \in FindOutcomes(rows) :
            /\ trace' = Append(trace, [op |-> "Find", table |-> "events", err |-> err])
            /\ IF err \notin {"nil", "norows"}
               THEN /\ Respond("dbError")
                    /\ UNCHANGED local
               ELSE /\ local' = [list |-> rows]
                    /\ pc' = "GetActivityList_respSucc"
                    /\ UNCHANGED resp
    /\ UNCHANGED <<handler, start, req, token, claims, db, nReq>>

GetActivityList_respSucc ==
    /\ pc = "GetActivityList_respSucc"
    /\ Respond("succ")
    /\ UNCHANGED <<handler, start, req, token, claims, local, trace, db, nReq>>

GetActivityList ==
    \/ GetActivityList_verify
    \/ GetActivityList_parseClaims
    \/ GetActivityList_Find
    \/ GetActivityList_respSucc

\* The addresses of the nodes of a group.
GroupAddrs(g) == {a \in DOMAIN NodeGroup : NodeGroup[a] = g}

GetJobHistoryStart ==
    \E body \in ReadMoreReqParams, t \in Tokens :
        Accept("GetJobHistory", "GetJobHistory_verify", body, t)

GetJobHistory_verify ==
    /\ pc = "GetJobHistory_verify"
    /\ \E ok \in BOOLEAN :
        /\ Valid(ok)
        /\ IF ~ok
           THEN Respond("error")
           ELSE /\ pc' = "GetJobHistory_getGroupAddr"
                /\ UNCHANGED resp
    /\ UNCHANGED <<handler, start, req, token, claims, local, db, nReq>>

\* ctx.getGroupAddr(): the token is parsed and the addresses of the nodes of
\* claims.GroupID are read.
GetJobHistory_getGroupAddr ==
    /\ pc = "GetJobHistory_getGroupAddr"
    /\ IF parseClaimsFromToken(token) # "nil"
       THEN /\ Respond("error")
            /\ UNCHANGED <<claims, local, trace>>
       ELSE /\ claims' = token.claims
            /\ \E err \in DBOutcomes :
                /\ trace' = Append(trace, [op |-> "getGroupAddr",
                                           groupID |-> token.claims.GroupID, err |-> err])
                /\ IF err # "nil"
                   THEN /\ Respond("error")
                        /\ UNCHANGED local
                   ELSE /\ local' = [addrs |-> GroupAddrs(token.claims.GroupID), list |-> <<>>]
                        /\ pc' = "GetJobHistory_Find"
                        /\ UNCHANGED resp
    /\ UNCHANGED <<handler, start, req, token, db, nReq>>

GetJobHistory_Find ==
    /\ pc = "GetJobHistory_Find"
    /\ LET rows == Limit(OrderByCreatedAt(WhereAddrIn(JobHistoryRows, local.addrs, req.LastID),
                                          req.Orderby), req.Pagesize)
       IN \E err \in FindOutcomes(rows) :
            /\ trace' = Append(trace, [op |-> "Find", table |-> "job_history", err |-> err])
            /\ IF err \notin {"nil", "norows"}
               THEN /\ Respond("dbError")
                    /\ UNCHANGED local
               ELSE /\ local' = [local EXCEPT !.list = rows]
                    /\ pc' = "GetJobHistory_respSucc"
                    /\ UNCHANGED resp
    /\ UNCHANGED <<handler, start, req, token, claims, db, nReq>>

GetJobHistory_respSucc ==
    /\ pc = "GetJobHistory_respSucc"
    /\ Respond("succ")
    /\ UNCHANGED <<handler, start, req, token, claims, local, trace, db, nReq>>

GetJobHistory ==
    \/ GetJobHistory_verify
    \/ GetJobHistory_getGroupAddr
    \/ GetJobHistory_Find
    \/ GetJobHistory_respSucc

RECURSIVE SumCounter(_, _)
\* sum(<counter k>) over a set of node addresses
SumCounter(addrs, k) ==
    IF addrs = {} THEN 0
    ELSE LET a == CHOOSE x \in addrs : TRUE
         IN NodeCounters[a][k] + SumCounter(addrs \ {a}, k)

\* select sum(...), count(*) from nodes where group_id=?
AuditNumStat(g) ==
    [CrontabJobAuditNum  |-> SumCounter(GroupAddrs(g), 1),
     DaemonJobAuditNum   |-> SumCounter(GroupAddrs(g), 2),
     CrontabJobFailNum   |-> SumCounter(GroupAddrs(g), 3),
     DaemonJobRunningNum |-> SumCounter(GroupAddrs(g), 4),
     NodeNum             |-> Cardinality(GroupAddrs(g))]

UserStatStart ==
    \E t \in Tokens : Accept("UserStat", "UserStat_parseClaims", NoReq, t)

UserStat_parseClaims ==
    /\ pc = "UserStat_parseClaims"
    /\ IF parseClaimsFromToken(token) # "nil"
       THEN /\ Respond("jwtError")
            /\ UNCHANGED claims
       ELSE /\ claims' = token.claims
            /\ pc' = "UserStat_Scan"
            /\ UNCHANGED resp
    /\ UNCHANGED <<handler, start, req, token, local, trace, db, nReq>>

UserStat_Scan ==
    /\ pc = "UserStat_Scan"
    /\ \E err \in DBOutcomes :
        /\ trace' = Append(trace, [op |-> "Scan", table |-> "nodes",
                                   groupID |-> claims.GroupID, err |-> err])
        /\ IF err # "nil"
           THEN /\ Respond("dbError")
                /\ UNCHANGED local
           ELSE /\ local' = [auditStat |-> AuditNumStat(claims.GroupID)]
                /\ pc' = "UserStat_respSucc"
                /\ UNCHANGED resp
    /\ UNCHANGED <<handler, start, req, token, claims, db, nReq>>

UserStat_respSucc ==
    /\ pc = "UserStat_respSucc"
    /\ Respond("succ")
    /\ UNCHANGED <<handler, start, req, token, claims, local, trace, db, nReq>>

UserStat ==
    \/ UserStat_parseClaims
    \/ UserStat_Scan
    \/ UserStat_respSucc

\* ------------------------------------------------------- specifications
NextAudit == AuditJobStart \/ AuditJob

SpecAudit == Init /\ [][NextAudit]_vars

NextWrite ==
    \/ AuditJobStart \/ AuditJob
    \/ IninAdminUserStart \/ IninAdminUser
    \/ SignupStart \/ Signup
    \/ GroupUserStart \/ GroupUser

SpecWrite == Init /\ [][NextWrite]_vars

NextList == GetUserListStart \/ GetUserList

SpecList == Init /\ [][NextList]_vars

NextRead ==
    \/ GetActivityListStart \/ GetActivityList
    \/ GetJobHistoryStart \/ GetJobHistory
    \/ UserStatStart \/ UserStat
    \/ GetUserListStart \/ GetUserList

SpecRead == InitRead /\ [][NextRead]_vars

NextLogin == LoginStart \/ Login

SpecLogin == Init /\ [][NextLogin]_vars

\* --------------------------------------------------------------- claims
\* Calls of one kind made by the request being served, in order.
Ops(op) == SelectSeq(trace, LAMBDA e : e.op = op)

RpcCalls == Ops("rpcCall")

PubCalls == Ops("pubEvent")

\* The identity the request's token carries (the zero claims when it does
\* not verify).
Caller == token.claims

CallerIsSuper == Caller.GroupID = SuperGroupID

CallerIsPrivileged == CallerIsSuper \/ Caller.Root

CallerOwnsNode ==
    /\ req.Addr \in DOMAIN NodeGroup
    /\ (Caller.GroupID = NodeGroup[req.Addr] \/ CallerIsSuper)

\* C1: an AuditJob request makes a remote call or publishes an event only if
\* its caller passed the node-ownership check for Addr and is privileged
\* (super group or root); a request whose guards were evaluated and refused
\* ends with notAllowed alone, with no remote call, no pubEvent call and the
\* audit store as it was.
C1_AuditGuarded ==
    handler = "AuditJob" =>
        /\ (RpcCalls # <<>> \/ PubCalls # <<>> \/ events # start.events)
            => (token.kind = "ok" /\ CallerOwnsNode /\ CallerIsPrivileged)
        /\ (pc = "done" /\ Ops("verifyNodePermission") # <<>>
                /\ ~(CallerOwnsNode /\ CallerIsPrivileged))
            => (resp = <<"notAllowed">> /\ RpcCalls = <<>> /\ PubCalls = <<>>
                    /\ events = start.events)

\* A root user of group 3 asks for an audit on the node of group 2 and is
\* refused.
C1_Witness ==
    /\ handler = "AuditJob" /\ pc = "done"
    /\ Caller.GroupID = 3 /\ Caller.Root /\ req.Addr = "n2"
    /\ resp = <<"notAllowed">>

\* C2: when the remote call of an AuditJob request fails, no event is
\* published or appended for the request, from then on, and the response is
\* the remote-dispatch error, never success.
C2_FailedDispatchNoEvent ==
    (handler = "AuditJob" /\ \E i \in DOMAIN RpcCalls : RpcCalls[i].err # "nil") =>
        /\ PubCalls = <<>>
        /\ events = start.events
        /\ pc = "done"
        /\ resp = <<"rpcError">>

\* The remote call of a daemon audit timed out.
C2_Witness ==
    /\ handler = "AuditJob" /\ pc = "done"
    /\ req.JobType = "daemon"
    /\ RpcCalls # <<>> /\ RpcCalls[1].err = "timeout"

\* C3: within an AuditJob request, the node-ownership check and then the
\* privilege check have both passed before the remote call is issued, and a
\* remote call has returned without error before the event is published.
C3_GuardDispatchPublishOrder ==
    handler = "AuditJob" =>
        \A i \in DOMAIN trace :
            /\ trace[i].op = "rpcCall" =>
                \E j \in 1..(i - 1), k \in 1..(i - 1) :
                    /\ j < k
                    /\ trace[j].op = "verifyNodePermission" /\ trace[j].ok
                    /\ trace[k].op = "privilege" /\ trace[k].ok
            /\ trace[i].op = "pubEvent" =>
                \E j \in 1..(i - 1) : trace[j].op = "rpcCall" /\ trace[j].err = "nil"
            /\ trace[i].op \in {"verifyNodePermission", "privilege"} =>
                \A j \in 1..(i - 1) : trace[j].op \notin {"rpcCall", "pubEvent"}

\* A request went through both guards, the remote call and the publication.
C3_Witness ==
    /\ handler = "AuditJob" /\ pc = "done"
    /\ resp = <<"succ">>
    /\ [i \in DOMAIN trace |-> trace[i].op]
        = <<"Valid", "verifyNodePermission", "privilege", "rpcCall", "pubEvent">>

\* Whether the privileged action of the request being served took effect.
EffectiveAudit ==
    handler = "AuditJob" /\ \E i \in DOMAIN RpcCalls : RpcCalls[i].err = "nil"

EffectiveSignup ==
    handler = "Signup" /\ \E i \in DOMAIN trace : trace[i].op = "Create" /\ trace[i].err = "nil"

EffectiveGroupUser ==
    handler = "GroupUser"
        /\ \E i \in DOMAIN trace : trace[i].op = "SetGroup" /\ trace[i].err = "nil"

EffectiveInit ==
    handler = "IninAdminUser"
        /\ \E i \in DOMAIN trace : trace[i].op = "Create" /\ trace[i].err = "nil"

\* Events the request being served has added to the audit store.
Appended == Len(events) - Len(start.events)

StoredPubCalls == SelectSeq(PubCalls, LAMBDA e : e.stored)

\* C4 (as claimed): a finished request has appended exactly one event if its
\* privileged action (AuditJob, Signup, GroupUser or IninAdminUser) took
\* effect, and none otherwise.
C4_Original ==
    pc = "done" =>
        Appended = (IF EffectiveAudit \/ EffectiveSignup \/ EffectiveGroupUser
                        \/ EffectiveInit
                    THEN 1 ELSE 0)

\* C4 (amended): a request calls pubEvent at most once; a finished AuditJob,
\* Signup or GroupUser request has called it exactly once if its action took
\* effect and not at all otherwise; IninAdminUser never calls it; and the
\* store grows by exactly the calls whose append succeeded, so by at most
\* one event per request.
C4_OnePublishPerEffectiveAction ==
    /\ Len(PubCalls) <= 1
    /\ Appended = Len(StoredPubCalls)
    /\ PubCalls # <<>> => (EffectiveAudit \/ EffectiveSignup \/ EffectiveGroupUser)
    /\ (pc = "done" /\ (EffectiveAudit \/ EffectiveSignup \/ EffectiveGroupUser))
        => Len(PubCalls) = 1
    /\ handler = "IninAdminUser" => (PubCalls = <<>> /\ Appended = 0)

\* The administrator was created and answered with success; no event exists
\* for it.
C4_Witness ==
    /\ handler = "IninAdminUser" /\ pc = "done" /\ resp = <<"succ">>
    /\ Len(users) = Len(start.users) + 1
    /\ users[Len(users)].GroupID = SuperGroupID /\ users[Len(users)].Root
    /\ PubCalls = <<>> /\ Appended = 0

WriteOps == {"Create", "Save", "SetGroup", "pubEvent"}

\* C5: a Signup or GroupUser request whose caller is not super (or whose
\* token does not verify) changes nothing: users, groups and the audit store
\* stay as they were and no write is attempted; and in every such request
\* the guard has passed before the first write.
C5_NonSuperNoSideEffect ==
    handler \in {"Signup", "GroupUser"} =>
        /\ ~(token.kind = "ok" /\ CallerIsSuper) =>
            /\ users = start.users
            /\ groups = start.groups
            /\ events = start.events
            /\ req = start.req
            /\ \A i \in DOMAIN trace : trace[i].op \notin WriteOps
            /\ "succ" \notin Range(resp)
        /\ \A i \in DOMAIN trace :
            trace[i].op \in WriteOps =>
                \E j \in 1..(i - 1) : trace[j].op = "isSuper" /\ trace[j].ok

\* A root user of group 2 asks to move a user into a new group "ops" and is
\* refused with nothing written.
C5_Witness ==
    /\ handler = "GroupUser" /\ pc = "done"
    /\ token.kind = "ok" /\ Caller.GroupID = 2 /\ Caller.Root
    /\ start.req.TargetGroupName = "ops"
    /\ resp = <<"notAllowed">>
    /\ groups = start.groups /\ users = start.users

\* C6: the names a successful AuditJob takes from the reply are the Name of
\* each returned job record in the reply's order; the published event's
\* Subject is those names joined with ",", its Addr the request's Addr and
\* its Payload the request as it arrived.
C6_SubjectIsJoinedNames ==
    (handler = "AuditJob" /\ PubCalls # <<>>) =>
        LET reply == RpcCalls[1].reply
            e == PubCalls[1].event
            n == Len(reply)
        IN
        /\ n <= 2
        /\ Len(local.targetNames) = n
        /\ \A i \in 1..n : local.targetNames[i] = reply[i].Name
        /\ e.Subject = (IF n = 0 THEN ""
                        ELSE IF n = 1 THEN reply[1].Name
                        ELSE reply[1].Name \o "," \o reply[2].Name)
        /\ (n = 2 /\ reply[1].Name = "backup" /\ reply[2].Name = "cleanup")
            => e.Subject = "backup,cleanup"
        /\ e.Addr = start.req.Addr
        /\ e.Payload = start.req

\* A root user audits crontab jobs 1 and 2, the node returns "backup" then
\* "cleanup".
C6_Witness ==
    /\ handler = "AuditJob" /\ pc = "done" /\ resp = <<"succ">>
    /\ Caller.Root /\ req.JobType = "crontab" /\ req.JobIDs = <<1, 2>>
    /\ RpcCalls[1].reply = <<[ID |-> 1, Name |-> "backup"], [ID |-> 2, Name |-> "cleanup"]>>
    /\ PubCalls[1].event.Subject = "backup,cleanup"

C8_AtMostOneRemoteCall ==
    handler = "AuditJob" =>
        /\ Len(RpcCalls) <= 1
        /\ \A i \in DOMAIN RpcCalls :
            /\ RpcCalls[i].addr = start.req.Addr
            /\ RpcCalls[i].err # "nil" => pc = "done"

\* The one remote call of a request timed out and the request is over.
C8_Witness ==
    /\ handler = "AuditJob" /\ pc = "done" /\ resp = <<"rpcError">>
    /\ Len(RpcCalls) = 1 /\ RpcCalls[1].err = "timeout"

\* What the privileged action of the request wrote is in the tables.
EffectPersisted ==
    /\ handler = "Signup" =>
        users = Append(start.users, User(start.req.Username, start.req.GroupID,
                                         start.req.Root))
    /\ handler = "GroupUser" =>
        /\ Len(users) = Len(start.users)
        /\ users[req.UserID].GroupID = req.TargetGroupID
        /\ users[req.UserID].Root = start.req.Root
        /\ start.req.TargetGroupName # "" =>
            (req.TargetGroupID \notin DOMAIN start.groups
                /\ groups[req.TargetGroupID] = start.req.TargetGroupName)
    /\ handler = "AuditJob" => EffectiveAudit

\* C9: once pubEvent has been called, whether or not its append succeeded,
\* the request goes on to the success response and what the action wrote
\* stays written.
C9_AuditWriteFailureSwallowed ==
    PubCalls # <<>> =>
        /\ handler \in {"AuditJob", "Signup", "GroupUser"}
        /\ EffectPersisted
        /\ resp = (IF pc = "done" THEN <<"succ">> ELSE <<>>)
        /\ pc \in {"done", "AuditJob_respSucc", "Signup_respSucc", "GroupUser_respSucc"}

\* The event of a Signup could not be appended; the user exists and the
\* caller got success.
C9_Witness ==
    /\ handler = "Signup" /\ pc = "done" /\ resp = <<"succ">>
    /\ Len(PubCalls) = 1 /\ ~PubCalls[1].stored
    /\ Appended = 0
    /\ Len(users) = Len(start.users) + 1

\* C10: a GetUserList request with IsAll=true from a caller outside the
\* super group, root or not, ends with notAllowed without counting or
\* reading users; from a caller of the super group it is never refused.
C10_ListAllOnlySuper ==
    (handler = "GetUserList" /\ token.kind = "ok" /\ start.req.IsAll) =>
        /\ ~CallerIsSuper =>
            /\ \A i \in DOMAIN trace : trace[i].op \notin {"Count", "Find"}
            /\ local = NoReq
            /\ "succ" \notin Range(resp)
            /\ pc = "done" => resp[Len(resp)] = "notAllowed"
        /\ CallerIsSuper =>
            /\ "notAllowed" \notin Range(resp)
            /\ pc = "done" => resp[Len(resp)] \in {"succ", "basicError", "dbError"}

\* A root user of group 2 asks for all users and is refused.
C10_Witness ==
    /\ handler = "GetUserList" /\ pc = "done"
    /\ token.kind = "ok" /\ Caller.GroupID = 2 /\ Caller.Root
    /\ start.req.IsAll
    /\ resp = <<"notAllowed">>

\* C11: for a GetUserList request with IsAll=false the group decision is
\* OwnsGroup(caller, queried group): a caller outside the super group asking
\* for a group other than its own ends with notAllowed without counting or
\* reading users; a caller of the super group is never refused, whatever
\* group it asks for.
C11_GroupDecisionIsOwnsGroup ==
    (handler = "GetUserList" /\ token.kind = "ok" /\ ~start.req.IsAll) =>
        /\ ~OwnsGroup(Caller, start.req.QueryGroupID) =>
            /\ \A i \in DOMAIN trace : trace[i].op \notin {"Count", "Find"}
            /\ local = NoReq
            /\ "succ" \notin Range(resp)
            /\ pc = "done" => resp[Len(resp)] = "notAllowed"
        /\ OwnsGroup(Caller, start.req.QueryGroupID) =>
            /\ "notAllowed" \notin Range(resp)
            /\ pc = "done" => resp[Len(resp)] \in {"succ", "basicError", "dbError"}

\* A user of group 2 asks for the users of group 3 and is refused.
C11_Witness ==
    /\ handler = "GetUserList" /\ pc = "done"
    /\ token.kind = "ok" /\ Caller.GroupID = 2
    /\ ~start.req.IsAll /\ start.req.QueryGroupID = 3
    /\ resp = <<"notAllowed">>

\* Storage reads made by the request being served.
DBReads == SelectSeq(trace, LAMBDA e : e.op \in {"Count", "Find", "Scan", "getGroupAddr"})

\* The response a handler writes when the token does not parse.
TokenError == IF handler = "GetActivityList" THEN "basicError" ELSE "jwtError"

\* C12: a GetActivityList, UserStat or GetUserList request whose token does
\* not parse is rejected with no side effect: it reads nothing from storage,
\* holds no data, never answers success, changes no table, and once the
\* token error is written the handler has stopped with that error as its
\* last response.
C12_TokenFailureStops ==
    (handler \in {"GetActivityList", "UserStat", "GetUserList"} /\ token.kind # "ok") =>
        /\ DBReads = <<>>
        /\ local = NoReq
        /\ claims = NoClaims
        /\ "succ" \notin Range(resp)
        /\ db = <<start.users, start.groups, start.events>>
        /\ pc \in {"done", "GetActivityList_verify", "GetActivityList_parseClaims",
                   "UserStat_parseClaims", "GetUserList_Valid", "GetUserList_parseClaims"}
        /\ TokenError \in Range(resp) => (pc = "done" /\ resp[Len(resp)] = TokenError)
        /\ pc = "done" => resp[Len(resp)] \in {TokenError, "error"}

\* A GetActivityList request with an expired token passed verify and was
\* answered with the token error.
C12_Witness ==
    /\ handler = "GetActivityList" /\ pc = "done"
    /\ token.kind = "expired"
    /\ Len(trace) = 1 /\ trace[1].op = "Valid" /\ trace[1].ok
    /\ resp = <<"basicError">>

VerifyCalls == Ops("Verify")

\* The credentials of the request match a row of the users table.
CredentialsMatch ==
    /\ UserByName(start.req.Username) # 0
    /\ StoredPasswd(start.req.Username) = start.req.Passwd

\* C13: a Login request holds or sends a token only after user.Verify
\* succeeded on credentials that match a stored user; when Verify fails the
\* request ends at once with one and the same response, whether the
\* username is unknown, the password is wrong or the lookup failed, and
\* nothing else was done for it.
C13_NoTokenWithoutVerification ==
    handler = "Login" =>
        /\ ("succ" \in Range(resp) \/ "token" \in DOMAIN local \/ "customerClaims" \in DOMAIN local)
            => (Len(VerifyCalls) = 1 /\ VerifyCalls[1].res = "ok" /\ CredentialsMatch)
        /\ (VerifyCalls # <<>> /\ VerifyCalls[1].res # "ok")
            => /\ pc = "done"
               /\ resp = <<"authFailed: wrong username or password">>
               /\ local = NoReq
               /\ Len(trace) = 2
        /\ ~CredentialsMatch => "succ" \notin Range(resp)

\* A login with a username that has no row was refused.
C13_Witness ==
    /\ handler = "Login" /\ pc = "done"
    /\ users # <<>> /\ start.req.Username = "mallory"
    /\ VerifyCalls # <<>> /\ VerifyCalls[1].res = "notfound"
    /\ resp = <<"authFailed: wrong username or password">>

\* C14: the claims a Login request builds carry the ID, mail, group and root
\* flag of the stored user and the username of the request; ExpiresAt is the
\* clock reading it was computed from plus 30 days (24*30 hours) when
\* Remember is set and plus the configured default otherwise, and is later
\* than that reading in both cases; the token signed is made of these
\* claims.
C14_TokenClaims ==
    (handler = "Login" /\ "customerClaims" \in DOMAIN local) =>
        LET cc == local.customerClaims
            i == UserByName(start.req.Username)
            nows == Ops("Now")
            issued == nows[Len(nows)].unix
        IN /\ i # 0
           /\ cc.UserID = i
           /\ cc.Mail = StoredMail(users[i].Username)
           /\ cc.GroupID = users[i].GroupID
           /\ cc.Root = users[i].Root
           /\ cc.Username = start.req.Username
           /\ Len(nows) = (IF start.req.Remember THEN 2 ELSE 1)
           /\ cc.ExpiresAt = issued + (IF start.req.Remember THEN 30 * 24 * 60 * 60 ELSE JwtExpires)
           /\ cc.ExpiresAt > issued
           /\ "token" \in DOMAIN local => local.token = [kind |-> "ok", claims |-> cc]

\* The administrator logged in with Remember set while the clock moved
\* between the two readings.
C14_Witness ==
    /\ handler = "Login" /\ pc = "done" /\ resp = <<"succ">>
    /\ start.req.Username = "admin" /\ start.req.Remember
    /\ Ops("Now") = <<[op |-> "Now", unix |-> 100], [op |-> "Now", unix |-> 101]>>
    /\ local.data.token.claims.ExpiresAt = 101 + 2592000
    /\ local.data.token.claims.GroupID = SuperGroupID

\* C15: a GetUserList request with IsAll=false and QueryGroupID left out
\* (0), from a caller outside the super group, is not refused and counts and
\* reads the users of the caller's own group.
C15_OwnGroupByDefault ==
    (handler = "GetUserList" /\ token.kind = "ok" /\ ~CallerIsSuper
        /\ ~start.req.IsAll /\ start.req.QueryGroupID = 0) =>
        /\ "notAllowed" \notin Range(resp)
        /\ \A i \in DOMAIN trace :
            trace[i].op \in {"Count", "Find"} => trace[i].groupID = Caller.GroupID
        /\ pc = "done" => resp[Len(resp)] \in {"succ", "basicError", "dbError"}

\* C16: every request gets exactly one response: none while it is being
\* served, one when the handler has returned, on every path.
C16_ExactlyOneResponse ==
    /\ Len(resp) <= 1
    /\ (pc = "done" => Len(resp) = 1)

\* C17: a GroupUser request that ends with an error leaves the tables as
\* they were when it arrived: no new group row, the target user's group and
\* root flag unchanged, no event published or appended.
C17_GroupUserErrorLeavesStateUnchanged ==
    (handler = "GroupUser" /\ pc = "done" /\ resp[Len(resp)] # "succ") =>
        /\ groups = start.groups
        /\ users = start.users
        /\ events = start.events
        /\ PubCalls = <<>>

\* C18: an IninAdminUser request that arrives when the users table already
\* holds a user of the super group creates no user and is not answered with
\* success, whatever the existence lookup returns.
C18_AdminCreatedAtMostOnce ==
    (handler = "IninAdminUser"
        /\ \E i \in DOMAIN start.users : start.users[i].GroupID = SuperGroupID) =>
        /\ users = start.users
        /\ "succ" \notin Range(resp)
        /\ \A i \in DOMAIN trace : trace[i].op # "Create"

\* What a node adds to counter k of the caller's group.
OwnCounter(a, k) == IF NodeGroup[a] = Caller.GroupID THEN NodeCounters[a][k] ELSE 0

\* C19: the rows a read handler holds for its answer belong to the caller:
\* GetActivityList holds only events of claims.UserID (with an ID below
\* LastID when LastID is given), GetJobHistory only runs recorded for nodes
\* of the caller's group (same LastID rule), and neither more than Pagesize
\* rows; UserStat counts and sums the nodes of claims.GroupID and no other.
C19_ReadsScopedToCaller ==
    /\ (handler = "GetActivityList" /\ "list" \in DOMAIN local) =>
        /\ token.kind = "ok"
        /\ Len(local.list) <= start.req.Pagesize
        /\ \A i \in DOMAIN local.list :
            LET r == local.list[i] IN
            /\ r.ID \in DOMAIN events /\ events[r.ID].UserID = r.UserID
            /\ r.UserID = Caller.UserID
            /\ start.req.LastID # 0 => r.ID < start.req.LastID
    /\ (handler = "GetJobHistory" /\ "list" \in DOMAIN local) =>
        /\ token.kind = "ok"
        /\ Len(local.list) <= start.req.Pagesize
        /\ \A i \in DOMAIN local.list :
            LET r == local.list[i] IN
            /\ r.ID \in DOMAIN JobHistoryAddrs /\ JobHistoryAddrs[r.ID] = r.Addr
            /\ r.Addr \in DOMAIN NodeGroup /\ NodeGroup[r.Addr] = Caller.GroupID
            /\ start.req.LastID # 0 => r.ID < start.req.LastID
    /\ (handler = "UserStat" /\ "auditStat" \in DOMAIN local) =>
        /\ token.kind = "ok"
        /\ local.auditStat.NodeNum =
                Cardinality({a \in DOMAIN NodeGroup : NodeGroup[a] = Caller.GroupID})
        /\ local.auditStat.CrontabJobAuditNum =
                OwnCounter("n2", 1) + OwnCounter("n3", 1) + OwnCounter("n4", 1)
        /\ local.auditStat.DaemonJobAuditNum =
                OwnCounter("n2", 2) + OwnCounter("n3", 2) + OwnCounter("n4", 2)
        /\ local.auditStat.CrontabJobFailNum =
                OwnCounter("n2", 3) + OwnCounter("n3", 3) + OwnCounter("n4", 3)
        /\ local.auditStat.DaemonJobRunningNum =
                OwnCounter("n2", 4) + OwnCounter("n3", 4) + OwnCounter("n4", 4)

\* User 1 got its two latest events; the event of user 2 that lies between
\* them in the store is not in the list.
C19_Witness ==
    /\ handler = "GetActivityList" /\ pc = "done" /\ resp = <<"succ">>
    /\ Caller.UserID = 1
    /\ start.req = [LastID |-> 0, Pagesize |-> 2, Orderby |-> "asc"]
    /\ events[2].UserID = 2
    /\ local.list = <<[ID |-> 1, UserID |-> 1], [ID |-> 3, UserID |-> 1]>>

\* C20: the pages of a GetUserList listing partition it: the rows of the
\* page served are in no other page of the same listing (same IsAll, group
\* and Pagesize, table unchanged), and all pages together hold exactly the
\* users counted in total.
C20_PagesPartition ==
    (handler = "GetUserList" /\ pc = "done" /\ resp = <<"succ">>) =>
        LET pageOf(p) == Range(ListPage(req.IsAll, req.QueryGroupID, p, req.Pagesize))
            counted == IF req.IsAll THEN Range(UserRows)
                       ELSE Range(WhereGroup(UserRows, req.QueryGroupID))
            Pages == 1..(Len(users) + 1)
        IN /\ Range(local.userList) = pageOf(req.Page)
           /\ local.total = Cardinality(counted)
           /\ \A p \in Pages \ {req.Page} : pageOf(p) \cap pageOf(req.Page) = {}
           /\ UNION {pageOf(p) : p \in Pages} = counted

====
